---------------------------- MODULE Spec2Model ----------------------------
(***************************************************************************)
(* The greedy decode scripts of MANGABubbleOCR: scripts/tokenid_debug3.py  *)
(* (recurrent-state model variant) and scripts/tokenid_debug4.py, and the  *)
(* function decode_tokens they share (the two copies are textually the     *)
(* same).                                                                  *)
(*                                                                         *)
(* A Python str is a sequence of one-character strings, so that "".join    *)
(* and the f-string "<UNK{t}>" are computed, character by character.       *)
(***************************************************************************)
EXTENDS Integers, Sequences, FiniteSets, TLC

(***************************************************************************)
(* Bounds of the model.                                                    *)
(***************************************************************************)
\* width of a logits row: the model's vocabulary_size (ids 0..NumLogits-1)
NumLogits == 8
\* during the first FreeSteps steps the network may favour any id
FreeSteps == 1
\* the recurrent state returned by a call is one of 0..StateVals
StateVals == 1
\* decode_tokens is applied to every id list of at most MaxTokLen ids ...
MaxTokLen == 3
\* ... drawn from -NegIds..MaxId and LargeId
NegIds == 1
MaxId == 7
LargeId == 6144
\* fixed-point depth of the exponential of the softmax
ExpDepth == 4

(***************************************************************************)
(* Program constants.                                                      *)
(***************************************************************************)
BOS_ID == 2
EOS_ID == 3
MAX_LEN == 32
max_len == 32
\* "if next_id == 3:  # [SEP]" and "tokens = [2]  # [CLS]" of tokenid_debug3.py
SEP_ID == 3
CLS_ID == 2
\* np.zeros((1, 1, 256)): the all-zero recurrent state
ZeroState == 0
\* the keys of the dict special_ids
special_ids == {0, 1, 2, 3}

Scripts == {"debug3", "debug4"}

(***************************************************************************)
(* Python strings and lists.                                               *)
(***************************************************************************)
Whitespace == {" ", "\n", "\t", "\r"}

RECURSIVE LStrip(_)
LStrip(s) == IF s # <<>> /\ Head(s) \in Whitespace THEN LStrip(Tail(s)) ELSE s

RECURSIVE RStrip(_)
RStrip(s) ==
    IF s # <<>> /\ s[Len(s)] \in Whitespace
    THEN RStrip(SubSeq(s, 1, Len(s) - 1))
    ELSE s

\* str.strip()
Strip(s) == RStrip(LStrip(s))

DigitChar(d) == <<"0", "1", "2", "3", "4", "5", "6", "7", "8", "9">>[d + 1]

RECURSIVE NatStr(_)
NatStr(n) ==
    IF n < 10 THEN <<DigitChar(n)>> ELSE NatStr(n \div 10) \o <<DigitChar(n % 10)>>

\* format(t) of an int, as in an f-string
IntStr(t) == IF t < 0 THEN <<"-">> \o NatStr(-t) ELSE NatStr(t)

\* "".join(list)
RECURSIVE Join(_)
Join(list) == IF list = <<>> THEN <<>> ELSE Head(list) \o Join(Tail(list))

\* list[i] of Python, the list being 1-indexed here: a negative index counts
\* from the end, an index outside -len..len-1 raises IndexError
PyGetItem(list, i) ==
    IF 0 <= i /\ i < Len(list) THEN [raised |-> FALSE, value |-> list[i + 1]]
    ELSE IF -Len(list) <= i /\ i < 0
         THEN [raised |-> FALSE, value |-> list[Len(list) + i + 1]]
         ELSE [raised |-> TRUE, value |-> <<>>]


(***************************************************************************)
(* decode_tokens (tokenid_debug4.py 39-49, tokenid_debug3.py 15-25).       *)
(***************************************************************************)
\* IsSpecial with the id of [UNK] left out of special_ids
IsSpecialNoUnk(t) == t \in {0, 2, 3}

\* "if t in special_ids"
IsSpecial(t) == t \in special_ids

\* InVocab without the lower bound
InVocabNoLower(t, vocab) == t < Len(vocab)

\* "if 0 <= t < len(vocab)"
InVocab(t, vocab) == 0 <= t /\ t < Len(vocab)

\* f"<UNK{t}>"
Placeholder(t) == <<"<", "U", "N", "K">> \o IntStr(t) \o <<">">>

\* TokenPiece with the ids after the special ones counted from the start of
\* the vocabulary (id 4 is vocab[0])
TokenPieceOffset(t, vocab) ==
    IF IsSpecial(t) THEN [raised |-> FALSE, pieces |-> <<>>]
    ELSE IF InVocab(t - 4, vocab)
         THEN LET e == PyGetItem(vocab, t - 4)
              IN  [raised |-> e.raised,
                   pieces |-> IF e.raised THEN <<>> ELSE <<e.value>>]
         ELSE [raised |-> FALSE, pieces |-> <<Placeholder(t)>>]

\* One pass of the body of "for t in tokens": what is appended to decoded
\* (no piece, the vocabulary entry or the placeholder), or the IndexError
\* of vocab[t].
TokenPiece(t, vocab) ==
    IF IsSpecial(t) THEN [raised |-> FALSE, pieces |-> <<>>]
    ELSE IF InVocab(t, vocab)
         THEN LET e == PyGetItem(vocab, t)
              IN  [raised |-> e.raised,
                   pieces |-> IF e.raised THEN <<>> ELSE <<e.value>>]
         ELSE [raised |-> FALSE, pieces |-> <<Placeholder(t)>>]

\* The list decoded after the loop over tokens; raised when a pass raised.
RECURSIVE DecodedList(_, _)
DecodedList(toks, vocab) ==
    IF toks = <<>> THEN [raised |-> FALSE, decoded |-> <<>>]
    ELSE LET p == TokenPiece(Head(toks), vocab)
         IN  IF p.raised THEN [raised |-> TRUE, decoded |-> <<>>]
             ELSE LET r == DecodedList(Tail(toks), vocab)
                  IN  [raised |-> r.raised,
                       decoded |-> IF r.raised THEN <<>> ELSE p.pieces \o r.decoded]

decode_tokens(toks, vocab) ==
    LET r == DecodedList(toks, vocab)
    IN  [raised |-> r.raised, text |-> IF r.raised THEN <<>> ELSE Join(r.decoded)]

(***************************************************************************)
(* load_vocab and the vocabulary files it is given: a file is the sequence *)
(* of its lines, each with its line end.                                   *)
(***************************************************************************)
FileEmpty == <<>>

FileABC == << <<"A", "\n">>, <<"B", "\n">>, <<"C">> >>

FileManga ==
    << <<"[", "P", "A", "D", "]", "\n">>,
       <<"[", "U", "N", "K", "]", "\n">>,
       <<"[", "C", "L", "S", "]", "\n">>,
       <<"[", "S", "E", "P", "]", "\n">>,
       <<"a", "\n">>,
       <<"b", "c", "\r", "\n">>,
       <<" ", "d", " ", "\n">> >>

VocabFiles == {FileEmpty, FileABC, FileManga}

\* load_vocab returning an empty vocabulary for a missing file
load_vocab_lenient(exists, file) ==
    IF ~exists THEN [raised |-> FALSE, value |-> <<>>]
    ELSE [raised |-> FALSE, value |-> [i \in 1..Len(file) |-> Strip(file[i])]]

\* open() raises FileNotFoundError for a missing file; otherwise every line,
\* stripped
load_vocab(exists, file) ==
    IF ~exists THEN [raised |-> TRUE, value |-> <<>>]
    ELSE [raised |-> FALSE, value |-> [i \in 1..Len(file) |-> Strip(file[i])]]

Vocabs == {load_vocab(TRUE, f).value : f \in VocabFiles}

(***************************************************************************)
(* The inference call mlmodel.predict: opaque, so any of a set of outcomes.*)
(* It raises, or returns logits of shape (1, len(tokens), NumLogits) and   *)
(* (tokenid_debug3.py) a recurrent state.                                  *)
(***************************************************************************)
Ids == 0..(NumLogits - 1)

\* a row whose maximum is shared by fav and the last id
LogitsRow(fav) == [i \in Ids |-> IF i = fav \/ i = NumLogits - 1 THEN 3 ELSE i % 3]

\* the ids the network may favour after toks
Favoured(toks) ==
    IF Len(toks) <= FreeSteps THEN Ids
    ELSE {EOS_ID, 4 + (Len(toks) % (NumLogits - 4))}

\* logits[0]: one row per input position, the earlier rows favouring the
\* ids that follow in toks
LogitsFor(toks, fav) ==
    [k \in 1..Len(toks) |-> LogitsRow(IF k < Len(toks) THEN toks[k + 1] ELSE fav)]

Predict(toks) ==
    {[raised |-> TRUE, logits |-> <<>>, state |-> ZeroState]}
    \cup {[raised |-> FALSE, logits |-> LogitsFor(toks, fav), state |-> s] :
             fav \in Favoured(toks), s \in 0..StateVals}

\* logits[0, -1]
LastRow(logits) == logits[Len(logits)]

RowMax(row) == CHOOSE m \in {row[i] : i \in DOMAIN row} : \A i \in DOMAIN row : row[i] <= m

\* np.argmax: the first index of the maximum
Argmax(row) ==
    LET m == RowMax(row)
    IN  CHOOSE i \in DOMAIN row :
            /\ row[i] = m
            /\ \A j \in DOMAIN row : j < i => row[j] < m

\* np.exp(x) for x <= 0, in fixed point: 2^(ExpDepth + x), 0 on underflow
RECURSIVE Pow2(_)
Pow2(n) == IF n = 0 THEN 1 ELSE 2 * Pow2(n - 1)

ExpFix(x) == IF x < -ExpDepth THEN 0 ELSE Pow2(ExpDepth + x)

RECURSIVE SumUpTo(_, _)
SumUpTo(row, i) == IF i < 0 THEN 0 ELSE row[i] + SumUpTo(row, i - 1)

\* probs = np.exp(last_logits - last_logits.max()); probs = probs / probs.sum()
Softmax(row) ==
    LET m == RowMax(row)
        e == [i \in DOMAIN row |-> ExpFix(row[i] - m)]
        total == SumUpTo(e, NumLogits - 1)
    IN  [i \in DOMAIN row |-> (e[i] * 1000) \div total]

(***************************************************************************)
(* The state of one run of a script.                                       *)
(***************************************************************************)
VARIABLES
    script,       \* which script runs
    argc,         \* len(sys.argv); a fourth argument changes nothing here
    files,        \* which of the image, model package and vocabulary file exist
    vocab_file,   \* the lines of the vocabulary file
    pc,           \* "start", "run", "loop", "after_loop", "exited"; "call", "returned"
    vocab,        \* the list load_vocab returned
    tokens,       \* the token sequence
    step,         \* how many values the for loop has drawn from range(MAX_LEN)
    state,        \* the recurrent state (tokenid_debug3.py)
    calls,        \* how many times mlmodel.predict was called
    inputs,       \* what the latest call of mlmodel.predict was given
    out_state,    \* out["state"] of the latest call that returned
    stdout,       \* what was printed
    stderr,       \* the traceback of an uncaught exception
    exit_status,  \* the exit status, once pc = "exited"
    result        \* what a direct call of decode_tokens returned or raised

vars == <<script, argc, files, vocab_file, pc, vocab, tokens, step, state, calls,
          inputs, out_state, stdout, stderr, exit_status, result>>

env == <<script, argc, files, vocab_file>>

Line(msg, path, val) == [msg |-> msg, path |-> path, val |-> val]

NoResult == [raised |-> FALSE, text |-> <<>>]

NoInputs == [ids |-> <<>>, state |-> ZeroState]

Init ==
    /\ script \in Scripts
    /\ argc \in 1..3
    /\ files \in [{"image", "model", "vocab"} -> BOOLEAN]
    /\ vocab_file \in VocabFiles
    /\ pc = "start"
    /\ vocab = <<>>
    /\ tokens = <<>>
    /\ step = 0
    /\ state = ZeroState
    /\ calls = 0
    /\ inputs = NoInputs
    /\ out_state = ZeroState
    /\ stdout = <<>>
    /\ stderr = <<>>
    /\ exit_status = 0
    /\ result = NoResult

\* print(msg); sys.exit(1)
ExitWith(msg, path) ==
    /\ stdout' = Append(stdout, Line(msg, path, <<>>))
    /\ pc' = "exited"
    /\ exit_status' = 1
    /\ UNCHANGED stderr

\* an exception nothing catches: the interpreter writes the traceback to
\* stderr and exits with status 1
Uncaught(exc, path) ==
    /\ stderr' = Append(stderr, Line(exc, path, <<>>))
    /\ pc' = "exited"
    /\ exit_status' = 1
    /\ UNCHANGED stdout

\* RangeYields one short, and one long
RangeYieldsShort(n, i) == i < n - 1

RangeYieldsLong(n, i) == i <= n

\* "for step in range(n)": whether range(n) yields a value after i of them
RangeYields(n, i) == i < n

(***************************************************************************)
(* tokenid_debug3.py, main.                                                *)
(***************************************************************************)
\* "tokens = [2]  # [CLS]"
InitialTokens3 == <<CLS_ID>>

\* lines 41-55: the arguments, load_vocab, MLModel, crop_and_preprocess
Main3 ==
    /\ script = "debug3" /\ pc = "start"
    /\ LET v == load_vocab(files["vocab"], vocab_file)
       IN  IF argc < 3
           THEN /\ ExitWith("Usage", "")
                /\ UNCHANGED <<vocab, tokens, state>>
           ELSE IF v.raised
           THEN /\ Uncaught("FileNotFoundError", "vocab")
                /\ UNCHANGED <<vocab, tokens, state>>
           ELSE IF ~files["model"]
           THEN /\ Uncaught("MLModelError", "model")
                /\ vocab' = v.value
                /\ UNCHANGED <<tokens, state>>
           ELSE IF ~files["image"]
           THEN /\ Uncaught("FileNotFoundError", "image")
                /\ vocab' = v.value
                /\ UNCHANGED <<tokens, state>>
           ELSE /\ vocab' = v.value
                /\ state' = ZeroState
                /\ tokens' = InitialTokens3
                /\ pc' = "loop"
                /\ UNCHANGED <<stdout, stderr, exit_status>>
    /\ UNCHANGED <<env, step, calls, inputs, out_state, result>>

\* ThreadState that keeps the state the call was given
ThreadStateStale(old, returned) == old

\* "state = out["state"]"
ThreadState(old, returned) == returned

\* IsSep comparing with the other marker
IsSepWrong(next_id) == next_id = CLS_ID

\* "if next_id == 3: break"
IsSep(next_id) == next_id = SEP_ID

\* where control goes after mlmodel.predict of line 64: nothing catches what
\* it raises
NextPc3(raised, next_id) ==
    IF raised THEN "exited" ELSE IF IsSep(next_id) THEN "after_loop" ELSE "loop"

\* lines 57-73: one pass of the loop body
Loop3Step ==
    /\ script = "debug3" /\ pc = "loop"
    /\ RangeYields(max_len, step)
    /\ \E out \in Predict(tokens) :
          LET next_id == IF out.raised THEN 0 ELSE Argmax(LastRow(out.logits))
          IN  /\ inputs' = [ids |-> tokens, state |-> state]
              /\ calls' = calls + 1
              /\ step' = step + 1
              /\ pc' = NextPc3(out.raised, next_id)
              /\ IF out.raised
                 THEN /\ stderr' = Append(stderr, Line("PredictError", "", <<>>))
                      /\ exit_status' = 1
                      /\ UNCHANGED <<out_state, state, tokens>>
                 ELSE /\ out_state' = out.state
                      /\ state' = ThreadState(state, out.state)
                      /\ tokens' = Append(tokens, next_id)
                      /\ UNCHANGED <<stderr, exit_status>>
    /\ UNCHANGED <<env, vocab, stdout, result>>

\* range(max_len) is exhausted
Loop3End ==
    /\ script = "debug3" /\ pc = "loop"
    /\ ~RangeYields(max_len, step)
    /\ pc' = "after_loop"
    /\ UNCHANGED <<env, vocab, tokens, step, state, calls, inputs, out_state,
                   stdout, stderr, exit_status, result>>

\* lines 75-77, then the end of the script
Finish ==
    /\ pc = "after_loop"
    /\ LET d == decode_tokens(tokens, vocab)
       IN  IF d.raised
           THEN /\ stdout' = Append(stdout, Line("FINAL TOKENS", "", tokens))
                /\ stderr' = Append(stderr, Line("IndexError", "", <<>>))
                /\ exit_status' = 1
           ELSE /\ stdout' = stdout \o <<Line("FINAL TOKENS", "", tokens),
                                         Line("DECODED TEXT", "", d.text)>>
                /\ exit_status' = 0
                /\ UNCHANGED stderr
    /\ pc' = "exited"
    /\ UNCHANGED <<env, vocab, tokens, step, state, calls, inputs, out_state, result>>

(***************************************************************************)
(* tokenid_debug4.py: the script body and run.                             *)
(***************************************************************************)
\* lines 106-122
Main4 ==
    /\ script = "debug4" /\ pc = "start"
    /\ LET v == load_vocab(files["vocab"], vocab_file)
       IN  IF argc < 2
           THEN /\ ExitWith("Usage", "")
                /\ UNCHANGED vocab
           ELSE IF ~files["model"]
           THEN /\ ExitWith("Model file not found", "model")
                /\ UNCHANGED vocab
           ELSE IF ~files["vocab"]
           THEN /\ ExitWith("Vocab file not found", "vocab")
                /\ UNCHANGED vocab
           ELSE IF v.raised
           THEN /\ Uncaught("FileNotFoundError", "vocab")
                /\ UNCHANGED vocab
           ELSE /\ vocab' = v.value
                /\ pc' = "run"
                /\ UNCHANGED <<stdout, stderr, exit_status>>
    /\ UNCHANGED <<env, tokens, step, state, calls, inputs, out_state, result>>

\* InitialTokens4 starting with the other marker
InitialTokens4Wrong == <<EOS_ID>>

\* "tokens = [BOS_ID]"
InitialTokens4 == <<BOS_ID>>

\* lines 62-74: Image.open, autocrop, preprocess, the "Input shape" line
Run4 ==
    /\ script = "debug4" /\ pc = "run"
    /\ IF ~files["image"]
       THEN /\ Uncaught("FileNotFoundError", "image")
            /\ UNCHANGED tokens
       ELSE /\ stdout' = Append(stdout, Line("Input shape", "", <<>>))
            /\ tokens' = InitialTokens4
            /\ pc' = "loop"
            /\ UNCHANGED <<stderr, exit_status>>
    /\ UNCHANGED <<env, vocab, step, state, calls, inputs, out_state, result>>

\* "if chosen == EOS_ID: break"
IsEos(chosen) == chosen = EOS_ID

\* NextPc4 with the failure of the call caught and the loop going on
NextPc4Retry(raised, chosen) ==
    IF raised THEN "loop" ELSE IF IsEos(chosen) THEN "after_loop" ELSE "loop"

\* where control goes after mlmodel.predict of lines 76-79
NextPc4(raised, chosen) ==
    IF raised THEN "exited" ELSE IF IsEos(chosen) THEN "after_loop" ELSE "loop"

\* lines 75-98: one pass of the loop body
Loop4Step ==
    /\ script = "debug4" /\ pc = "loop"
    /\ RangeYields(MAX_LEN, step)
    /\ \E out \in Predict(tokens) :
          LET chosen == IF out.raised THEN 0
                        ELSE Argmax(Softmax(LastRow(out.logits)))
          IN  /\ inputs' = [ids |-> tokens, state |-> ZeroState]
              /\ calls' = calls + 1
              /\ step' = step + 1
              /\ pc' = NextPc4(out.raised, chosen)
              /\ IF out.raised
                 THEN /\ stderr' = Append(stderr, Line("PredictError", "", <<>>))
                      /\ exit_status' = 1
                      /\ UNCHANGED tokens
                 ELSE /\ tokens' = Append(tokens, chosen)
                      /\ UNCHANGED <<stderr, exit_status>>
    /\ UNCHANGED <<env, vocab, state, out_state, stdout, result>>

Loop4End ==
    /\ script = "debug4" /\ pc = "loop"
    /\ ~RangeYields(MAX_LEN, step)
    /\ pc' = "after_loop"
    /\ UNCHANGED <<env, vocab, tokens, step, state, calls, inputs, out_state,
                   stdout, stderr, exit_status, result>>

Next == Main3 \/ Loop3Step \/ Loop3End \/ Main4 \/ Run4 \/ Loop4Step \/ Loop4End \/ Finish

Spec == Init /\ [][Next]_vars

(***************************************************************************)
(* decode_tokens called on its own, on every id list and vocabulary of the *)
(* bounds.                                                                 *)
(***************************************************************************)
TokenIds == ((-NegIds)..MaxId) \cup {LargeId}

\* the sequence of the specification's example, longer than MaxTokLen
ExampleTokens == <<2, 4, 5, 6, 3>>

IdLists == UNION {[1..n -> TokenIds] : n \in 0..MaxTokLen} \cup {ExampleTokens}

InitDecode ==
    /\ script = "decode_tokens"
    /\ pc = "call"
    /\ tokens \in IdLists
    /\ vocab \in Vocabs
    /\ argc = 1
    /\ files = [f \in {"image", "model", "vocab"} |-> TRUE]
    /\ vocab_file = FileEmpty
    /\ step = 0
    /\ state = ZeroState
    /\ calls = 0
    /\ inputs = NoInputs
    /\ out_state = ZeroState
    /\ stdout = <<>>
    /\ stderr = <<>>
    /\ exit_status = 0
    /\ result = NoResult

DecodeCall ==
    /\ pc = "call"
    /\ result' = decode_tokens(tokens, vocab)
    /\ pc' = "returned"
    /\ UNCHANGED <<env, vocab, tokens, step, state, calls, inputs, out_state,
                   stdout, stderr, exit_status>>

NextDecode == DecodeCall

SpecDecode == InitDecode /\ [][NextDecode]_vars

(***************************************************************************)
(* What the claims speak of.                                               *)
(***************************************************************************)
Last(seq) == seq[Len(seq)]

InStdout(msg) == \E i \in 1..Len(stdout) : stdout[i].msg = msg

\* the inference call raised
PredictFailed == \E i \in 1..Len(stderr) : stderr[i].msg = "PredictError"

\* the loop is over: by break, or range(MAX_LEN) exhausted
LoopOver == pc = "after_loop" \/ (pc = "exited" /\ tokens # <<>> /\ ~PredictFailed)

EndFree(toks) == \A i \in 1..Len(toks) : toks[i] # EOS_ID

IsSubstring(p, t) ==
    \E i \in 0..(Len(t) - Len(p)) : SubSeq(t, i + 1, i + Len(p)) = p

DigitValue(c) ==
    CHOOSE k \in 0..9 : <<"0", "1", "2", "3", "4", "5", "6", "7", "8", "9">>[k + 1] = c

IsDigits(d) ==
    /\ d # <<>>
    /\ \A i \in 1..Len(d) : d[i] \in {"0", "1", "2", "3", "4", "5", "6", "7", "8", "9"}

RECURSIVE DigitsValue(_)
DigitsValue(d) ==
    IF d = <<>> THEN 0
    ELSE 10 * DigitsValue(SubSeq(d, 1, Len(d) - 1)) + DigitValue(d[Len(d)])

\* d is the decimal numeral of the integer t
Denotes(d, t) ==
    IF d # <<>> /\ Head(d) = "-"
    THEN IsDigits(Tail(d)) /\ -DigitsValue(Tail(d)) = t
    ELSE IsDigits(d) /\ DigitsValue(d) = t

\* text reads, id by id of toks: nothing for a special id, the vocabulary
\* entry for an id in range, and "<UNK", the numeral of the id, ">" otherwise
RECURSIVE Reads(_, _, _)
Reads(text, toks, voc) ==
    IF toks = <<>> THEN text = <<>>
    ELSE LET t == Head(toks)
         IN  IF t \in 0..3 THEN Reads(text, Tail(toks), voc)
             ELSE IF 0 <= t /\ t < Len(voc)
             THEN LET e == voc[t + 1]
                  IN  /\ Len(e) <= Len(text)
                      /\ SubSeq(text, 1, Len(e)) = e
                      /\ Reads(SubSeq(text, Len(e) + 1, Len(text)), Tail(toks), voc)
             ELSE \E n \in 6..Len(text) :
                      /\ SubSeq(text, 1, 4) = <<"<", "U", "N", "K">>
                      /\ text[n] = ">"
                      /\ Denotes(SubSeq(text, 5, n - 1), t)
                      /\ Reads(SubSeq(text, n + 1, Len(text)), Tail(toks), voc)

VocabABC == << <<"A">>, <<"B">>, <<"C">> >>

VocabManga ==
    << <<"[", "P", "A", "D", "]">>, <<"[", "U", "N", "K", "]">>,
       <<"[", "C", "L", "S", "]">>, <<"[", "S", "E", "P", "]">>,
       <<"a">>, <<"b", "c">>, <<"d">> >>

(***************************************************************************)
(* C1. When the end token is never selected, the loop ends after exactly   *)
(* MAX_LEN inference calls with MAX_LEN + 1 tokens, there are never more   *)
(* than MAX_LEN calls, and the run then prints the final tokens and the    *)
(* decoded text and exits with status 0.                                   *)
(***************************************************************************)
C1_Truncated ==
    /\ calls <= MAX_LEN
    /\ (LoopOver /\ EndFree(tokens)) =>
          /\ calls = MAX_LEN
          /\ Len(tokens) = MAX_LEN + 1
    /\ (pc = "exited" /\ LoopOver /\ EndFree(tokens)) =>
          /\ exit_status = 0
          /\ stderr = <<>>
          /\ stdout[Len(stdout) - 1] = Line("FINAL TOKENS", "", tokens)
          /\ stdout[Len(stdout)].msg = "DECODED TEXT"

C1_Witness ==
    /\ pc = "exited" /\ EndFree(tokens) /\ Len(tokens) = MAX_LEN + 1
    /\ calls = MAX_LEN /\ exit_status = 0 /\ InStdout("DECODED TEXT")

(***************************************************************************)
(* C2. Once the end token is selected at step k it is the last token, the  *)
(* loop is left, the sequence has k + 1 tokens and exactly k inference     *)
(* calls were made; at step 1 the sequence is [begin, end].                *)
(***************************************************************************)
C2_EarlyStop ==
    (Len(tokens) >= 2 /\ \E i \in 2..Len(tokens) : tokens[i] = EOS_ID) =>
        /\ Last(tokens) = EOS_ID
        /\ \A i \in 2..(Len(tokens) - 1) : tokens[i] # EOS_ID
        /\ pc \in {"after_loop", "exited"}
        /\ calls = Len(tokens) - 1
        /\ calls \in 1..MAX_LEN
        /\ (calls = 1 => tokens = <<BOS_ID, EOS_ID>>)

C2_Witness ==
    /\ pc = "exited" /\ Len(tokens) = MAX_LEN + 1 /\ Last(tokens) = EOS_ID
    /\ calls = MAX_LEN

(***************************************************************************)
(* C3. In the decode loop and after it the first token is the begin        *)
(* marker; when the loop ends before the step cap, the last token is the   *)
(* end marker, and the end marker is at no earlier position.               *)
(***************************************************************************)
C3_Markers ==
    /\ (pc \in {"loop", "after_loop"} \/ tokens # <<>>) =>
          /\ tokens # <<>>
          /\ tokens[1] = BOS_ID
          /\ \A i \in 1..(Len(tokens) - 1) : tokens[i] # EOS_ID
    /\ (LoopOver /\ calls < MAX_LEN) => Last(tokens) = EOS_ID

C3_Witness ==
    /\ pc = "after_loop" /\ calls < MAX_LEN /\ Len(tokens) = 3
    /\ tokens[1] = BOS_ID /\ Last(tokens) = EOS_ID

(***************************************************************************)
(* C4, as claimed: the token sequence never has more than MAX_LEN tokens.  *)
(***************************************************************************)
C4_Original == Len(tokens) <= MAX_LEN

(***************************************************************************)
(* C4, amended: the token sequence never has more than MAX_LEN + 1 tokens  *)
(* (the begin marker and one token for each of the MAX_LEN steps).         *)
(***************************************************************************)
C4_LengthBound == Len(tokens) <= MAX_LEN + 1

C4_Witness == pc = "loop" /\ Len(tokens) = MAX_LEN + 1

(***************************************************************************)
(* C5, as claimed: decode_tokens of [2, 4, 5, 6, 3] with the vocabulary    *)
(* ["A", "B", "C"] returns "ABC".                                          *)
(***************************************************************************)
C5_Original ==
    (pc = "returned" /\ tokens = ExampleTokens /\ vocab = VocabABC) =>
        result = [raised |-> FALSE, text |-> <<"A", "B", "C">>]

(***************************************************************************)
(* C5, amended: decode_tokens of [2, 4, 5, 6, 3] with the vocabulary       *)
(* ["A", "B", "C"] returns "<UNK4><UNK5><UNK6>": an id indexes the         *)
(* vocabulary as it is, and 4, 5, 6 are out of the range of 3 entries.     *)
(***************************************************************************)
C5_Example ==
    (pc = "returned" /\ tokens = ExampleTokens /\ vocab = VocabABC) =>
        result = [raised |-> FALSE,
                  text |-> <<"<", "U", "N", "K", "4", ">",
                             "<", "U", "N", "K", "5", ">",
                             "<", "U", "N", "K", "6", ">">>]

C5_Witness ==
    /\ pc = "returned" /\ tokens = ExampleTokens /\ vocab = VocabABC
    /\ ~result.raised /\ Len(result.text) = 18

(***************************************************************************)
(* C6. decode_tokens emits nothing for the ids 0, 1, 2, 3: its result is   *)
(* that of the sequence without them, no entry at the indices 0..3 of the  *)
(* vocabulary occurs in it, and a sequence of special ids only gives "".   *)
(***************************************************************************)
C6_SpecialsSilent ==
    pc = "returned" =>
        LET rest == SelectSeq(tokens, LAMBDA t : t \notin 0..3)
        IN  /\ ~result.raised
            /\ result = decode_tokens(rest, vocab)
            /\ \A k \in 1..4 :
                  (k <= Len(vocab) /\ vocab[k] # <<>>) =>
                      ~IsSubstring(vocab[k], result.text)
            /\ (rest = <<>> => result.text = <<>>)
            /\ (\E i \in 1..Len(rest) : rest[i] < Len(vocab) /\ rest[i] >= 0)
                   => result.text # <<>>

C6_Witness ==
    /\ pc = "returned" /\ vocab = VocabManga /\ tokens = <<1, 5, 3>>
    /\ result.text = <<"b", "c">>

(***************************************************************************)
(* C7. decode_tokens raises for no vocabulary and no id list; its result   *)
(* reads, in the order of the ids, the entry of each id in range and, for  *)
(* each id t below 0 or from len(vocab) on, "<UNK", the numeral of t, ">". *)
(***************************************************************************)
C7_Placeholders ==
    pc = "returned" =>
        /\ ~result.raised
        /\ Reads(result.text, tokens, vocab)

C7_Witness ==
    /\ pc = "returned" /\ vocab = VocabManga /\ tokens = <<-1, 5, LargeId>>
    /\ ~result.raised /\ Len(result.text) > 14

C7_WitnessEmpty ==
    /\ pc = "returned" /\ vocab = <<>> /\ tokens = <<4, -1>>
    /\ result.text = <<"<", "U", "N", "K", "4", ">", "<", "U", "N", "K", "-", "1", ">">>

(***************************************************************************)
(* C8. With a required file missing, no inference call is made and the run *)
(* ends with a non-zero exit status after exactly one message: a printed   *)
(* line or the traceback of the uncaught exception, which names a missing  *)
(* file when the arguments suffice to reach the files.                     *)
(***************************************************************************)
Missing == {f \in {"image", "model", "vocab"} : ~files[f]}

Messages == stdout \o stderr

C8_MissingFiles ==
    (script \in Scripts /\ Missing # {}) =>
        /\ calls = 0
        /\ tokens = <<>>
        /\ pc \in {"start", "run", "exited"}
        /\ pc = "exited" =>
              /\ exit_status # 0
              /\ Len(Messages) = 1
              /\ Messages[1].msg # "Usage" => Messages[1].path \in Missing
              /\ Messages[1].msg = "Usage" =>
                    argc < (IF script = "debug3" THEN 3 ELSE 2)

C8_Witness ==
    /\ script = "debug3" /\ pc = "exited" /\ Missing = {"vocab"}
    /\ exit_status = 1 /\ calls = 0
    /\ stderr = <<Line("FileNotFoundError", "vocab", <<>>)>>

(***************************************************************************)
(* C9. Every loop step makes one inference call: the calls are one more    *)
(* than the tokens appended exactly when a call failed.  A failed call     *)
(* ends the run with a non-zero status: the loop is left, no token is      *)
(* appended for it, and neither the final tokens nor the decoded text is   *)
(* printed.                                                                *)
(***************************************************************************)
C9_FailurePropagates ==
    /\ tokens # <<>> =>
          calls = (Len(tokens) - 1) + (IF PredictFailed THEN 1 ELSE 0)
    /\ calls = step
    /\ PredictFailed =>
          /\ pc = "exited"
          /\ exit_status # 0
          /\ Len(stderr) = 1
          /\ ~InStdout("FINAL TOKENS")
          /\ ~InStdout("DECODED TEXT")

C9_Witness ==
    /\ PredictFailed /\ pc = "exited" /\ calls = 3 /\ Len(tokens) = 3
    /\ exit_status = 1

(***************************************************************************)
(* C10. In tokenid_debug3.py every inference call is given the whole token *)
(* sequence; the first call is given the all-zero state and every later    *)
(* call the state the call before it returned.                             *)
(***************************************************************************)
C10_StateThreaded ==
    [][(script = "debug3" /\ calls' = calls + 1) =>
          /\ inputs'.ids = tokens
          /\ inputs'.state = (IF calls = 0 THEN ZeroState ELSE out_state)]_vars

C10_Witness ==
    /\ script = "debug3" /\ calls >= 3 /\ inputs.state # ZeroState
    /\ out_state = ZeroState /\ state = ZeroState /\ Len(inputs.ids) = calls

=============================================================================
